---- MODULE Spec2Model ----
(***************************************************************************)
(* A model of go-vidprep: the per-clip chunking pipeline (ProcessClip),    *)
(* the parallel orchestrator (ProcessClips), the shard packer              *)
(* (CreateWebDatasetShards / createShard) and the archive clip extractor   *)
(* (ExtractClipsFromTar).                                                  *)
(*                                                                         *)
(* Strings are sequences of one-character strings, so that Split, Atoi,    *)
(* HasSuffix, Base, TrimSuffix and Sprintf("%05d") are computed as the Go   *)
(* library computes them.  External collaborators (the file system, the    *)
(* ffmpeg Decode Engine) answer nondeterministically: an operation either  *)
(* succeeds or fails, and a decode yields any number of bytes / frames up  *)
(* to a bound.                                                             *)
(***************************************************************************)
EXTENDS Integers, Sequences, FiniteSets, TLC

\* ------------------------------------------------------------------ bounds
MaxRawLen == 13      \* bytes the Decode Engine may return in raw mode
MaxFrames == 5       \* frame files the Decode Engine may write in image mode
MaxTarget == 3       \* largest chunk length tried
MaxClips == 4        \* clips in one batch
MaxFairClips == 2    \* clips in one batch when fair scheduling is checked
MaxWorkerCount == 2  \* largest workerCount argument tried
MaxSamples == 5      \* chunks of the first clip the shard packer finds
MaxOtherChunks == 1  \* chunks of the second clip
MaxShardSize == 3    \* largest shard capacity tried
MaxEntries == 3      \* entries in the input archive
MaxDims == 4         \* dimensions of the array shapes tried
LongFrames == 1000   \* frames of the longest clip whose frame list is sorted

\* ------------------------------------------------------- program constants
DefaultWorkers == 4  \* processor.go: numWorkers = 4 when numWorkers <= 0
Channels == 3        \* RGB: frameSize = Width * Height * 3
ChunkDigits == 5     \* "chunk_%05d", "shard_%05d.tar"
FrameDigits == 3     \* "frame_%03d.jpg"
DefaultFps == 8      \* main.go: -fps default

\* ------------------------------------------------------------ Go arithmetic
Abs(a) == IF a < 0 THEN -a ELSE a

\* Go's integer division truncates toward zero (b # 0).
GoDiv(a, b) ==
    IF (a >= 0) = (b > 0) THEN Abs(a) \div Abs(b) ELSE -(Abs(a) \div Abs(b))

\* Go's remainder has the sign of the dividend (b # 0).
GoMod(a, b) == a - b * GoDiv(a, b)

\* ------------------------------------------------------------------ strings
DigitChars == <<"0", "1", "2", "3", "4", "5", "6", "7", "8", "9">>

\* The characters used, in byte order.
Ascii ==
    <<"+", "-", ".", "/">> \o DigitChars \o
    <<"_", "a", "b", "c", "d", "e", "f", "g", "h", "i", "j", "k", "l", "m",
      "n", "o", "p", "q", "r", "s", "t", "u", "v", "w", "x", "y", "z">>

CharCode(c) == CHOOSE k \in 1..Len(Ascii) : Ascii[k] = c

IsDigit(c) == \E k \in 1..10 : DigitChars[k] = c

DigitVal(c) == (CHOOSE k \in 1..10 : DigitChars[k] = c) - 1

\* strings.HasSuffix
HasSuffix(s, suffix) ==
    /\ Len(s) >= Len(suffix)
    /\ SubSeq(s, Len(s) - Len(suffix) + 1, Len(s)) = suffix

\* strings.HasPrefix
HasPrefix(s, prefix) ==
    /\ Len(s) >= Len(prefix)
    /\ SubSeq(s, 1, Len(prefix)) = prefix

\* strings.TrimSuffix
TrimSuffix(s, suffix) ==
    IF HasSuffix(s, suffix) THEN SubSeq(s, 1, Len(s) - Len(suffix)) ELSE s

\* strings.Split(s, sep) for a one-character separator
RECURSIVE Split(_, _)
Split(s, sep) ==
    IF \E k \in 1..Len(s) : s[k] = sep
    THEN LET k == CHOOSE k \in 1..Len(s) :
                     s[k] = sep /\ \A j \in 1..(k - 1) : s[j] # sep
         IN  <<SubSeq(s, 1, k - 1)>> \o Split(SubSeq(s, k + 1, Len(s)), sep)
    ELSE <<s>>

\* filepath.Base for the slash-separated, non-empty names used here:
\* the last element of the path, trailing slashes removed.
RECURSIVE Base(_)
Base(path) ==
    IF path = <<>> THEN <<".">>
    ELSE IF path[Len(path)] = "/"
    THEN IF Len(path) = 1 THEN <<"/">> ELSE Base(SubSeq(path, 1, Len(path) - 1))
    ELSE LET parts == Split(path, "/") IN parts[Len(parts)]

RECURSIVE DigitsValue(_)
DigitsValue(d) ==
    IF d = <<>> THEN 0
    ELSE 10 * DigitsValue(SubSeq(d, 1, Len(d) - 1)) + DigitVal(d[Len(d)])

\* strconv.Atoi: an optional sign, then one or more decimal digits.
Atoi(s) ==
    LET signed == Len(s) > 0 /\ s[1] \in {"+", "-"}
        body == IF signed THEN Tail(s) ELSE s
        okay == Len(body) > 0 /\ \A k \in 1..Len(body) : IsDigit(body[k])
    IN  IF ~okay THEN [ok |-> FALSE, val |-> 0]
        ELSE [ok |-> TRUE,
              val |-> IF signed /\ s[1] = "-" THEN -DigitsValue(body)
                      ELSE DigitsValue(body)]

RECURSIVE DigitsOf(_)
DigitsOf(n) ==
    IF n < 10 THEN <<DigitChars[n + 1]>>
    ELSE DigitsOf(n \div 10) \o <<DigitChars[(n % 10) + 1]>>

RECURSIVE ZeroPad(_, _)
ZeroPad(d, width) == IF Len(d) >= width THEN d ELSE ZeroPad(<<"0">> \o d, width)

\* fmt.Sprintf("%0<width>d", n): at least width characters, the sign counted.
FmtD(n, width) ==
    IF n >= 0 THEN ZeroPad(DigitsOf(n), width)
    ELSE <<"-">> \o ZeroPad(DigitsOf(-n), width - 1)

\* Byte-wise string order, as sort.Strings uses.
RECURSIVE StrLess(_, _)
StrLess(a, b) ==
    IF b = <<>> THEN FALSE
    ELSE IF a = <<>> THEN TRUE
    ELSE IF a[1] # b[1] THEN CharCode(a[1]) < CharCode(b[1])
    ELSE StrLess(Tail(a), Tail(b))

\* sort.Strings over a set of distinct names: each name goes to the position
\* that is one more than the number of names below it.
SortStrings(names) ==
    LET ranked ==
            {<<Cardinality({b \in names : StrLess(b, a)}) + 1, a>> : a \in names}
    IN  [k \in 1..Cardinality(names) |-> (CHOOSE p \in ranked : p[1] = k)[2]]

\* ------------------------------------------------------------------- state
VARIABLES
    \* ProcessClip: arguments (format, size, fps and targetFrames are also
    \* the arguments ProcessClips passes through, and format is the format
    \* CreateWebDatasetShards is given)
    key, format, size, fps, targetFrames,
    \* ProcessClip: control and outcome
    pc, result,
    \* ProcessClip: the file system it touches
    tempVideo, deferred, tempRaw, outDir, loose,
    \* ProcessClip: the frame files of chunk directories that a previous run
    \* left under the clip's output directory
    prior,
    \* ProcessClip: locals
    dims, rawLen, frameFiles, totalFrames, numChunks, i,
    \* ProcessClip: what it has written
    chunks, metas

VARIABLES
    nClips,        \* ProcessClips: len(clips)
    workerCount,   \* the numWorkers argument
    numWorkers,    \* numWorkers after the default is applied
    mainPc,        \* where the main goroutine stands
    spawned,       \* workers started so far
    sent,          \* clips sent on jobs so far
    jobs,          \* the jobs channel's buffer
    jobsClosed,
    errors,        \* the errors channel's buffer
    wg,            \* the WaitGroup counter
    worker,        \* per worker: its position and the clip it holds
    handed,        \* per clip: how many times ProcessClip was called on it
    outcome,       \* per clip: how its ProcessClip ended
    errs,          \* the errors collected by the main goroutine
    batchResult,   \* what ProcessClips returned
    panicking      \* a goroutine has panicked and the process is about to exit

VARIABLES
    tree,          \* CreateWebDatasetShards: the entries under the input directory
    walkFailed,    \* whether filepath.Walk ended on an error
    samples,       \* the samples in discovery order
    shardSize,     \* the shardSize argument
    shardPc,       \* where CreateWebDatasetShards stands
    shardI,        \* the shard loop's i
    shards,        \* the shard files written, in order of creation
    shardFaults,   \* the I/O operations that failed, in order
    shardResult    \* what CreateWebDatasetShards returned

VARIABLES
    archive,       \* ExtractClipsFromTar: the archive's entry names
    tarPc,         \* where ExtractClipsFromTar stands
    tarPos,        \* entries read so far
    clips,         \* the clips collected so far
    tarResult      \* what ExtractClipsFromTar returned

VARIABLES
    shape,         \* numpy.Writer.Write: the shape argument
    data,          \* the data argument, a sequence of bytes
    npyPc,         \* where NewWriter / Write stands
    npyFile,       \* the .npy file: whether it exists and its bytes
    npyResult      \* what Write (or NewWriter) returned

clipVars ==
    <<key, prior, format, size, fps, targetFrames, pc, result, tempVideo,
      deferred,
      tempRaw, outDir, loose, dims, rawLen, frameFiles, totalFrames,
      numChunks, i, chunks, metas>>

batchVars ==
    <<nClips, workerCount, numWorkers, mainPc, spawned, sent, jobs,
      jobsClosed, errors, wg, worker, handed, outcome, errs, batchResult,
      panicking>>

shardVars ==
    <<tree, walkFailed, samples, shardSize, shardPc, shardI, shards,
      shardFaults, shardResult>>

tarVars == <<archive, tarPc, tarPos, clips, tarResult>>

npyVars == <<shape, data, npyPc, npyFile, npyResult>>

vars == <<clipVars, batchVars, shardVars, tarVars, npyVars>>

\* ------------------------------------------------------------- ProcessClip
FormatJPEG == "jpg"
FormatNPY == "npy"
\* OutputFormat is a string type: a value that is neither constant takes
\* the default branch of ProcessClip's switch
FormatUnsupported == "png"

StrMp4 == <<".", "m", "p", "4">>
StrJpg == <<".", "j", "p", "g">>
StrFramePrefix == <<"f", "r", "a", "m", "e", "_">>

\* The size arguments tried: "1x1", "2x1", "1x2", "0x1", "-1x1", and the
\* malformed "2", "ax2", "2xb", "1x2x1".
SizeStrings ==
    { <<"1", "x", "1">>, <<"2", "x", "1">>, <<"1", "x", "2">>,
      <<"0", "x", "1">>, <<"-", "1", "x", "1">>,
      <<"2">>, <<"a", "x", "2">>, <<"2", "x", "b">>,
      <<"1", "x", "2", "x", "1">> }

NoDims == [ok |-> FALSE, Width |-> 0, Height |-> 0]

parseDimensions(s) ==
    LET dimensions == Split(s, "x")
    IN  IF Len(dimensions) # 2 THEN NoDims
        ELSE LET width == Atoi(dimensions[1])
                 height == Atoi(dimensions[2])
             IN  IF ~width.ok THEN NoDims
                 ELSE IF ~height.ok THEN NoDims
                 ELSE [ok |-> TRUE, Width |-> width.val, Height |-> height.val]

\* "frame_%03d.jpg", the pattern the Decode Engine and the chunk loop use
FrameName(n) == StrFramePrefix \o FmtD(n, FrameDigits) \o StrJpg

StrChunkPrefix == <<"c", "h", "u", "n", "k", "_">>

\* fmt.Sprintf("%s/chunk_%05d", clip.Key, i)
ChunkKey(k, idx) == k \o <<"/">> \o StrChunkPrefix \o FmtD(idx, ChunkDigits)

\* A variant that stores the size width first
ClipMetadataWidthFirst(k, idx, f, frames, d) ==
    [Key |-> ChunkKey(k, idx), FPS |-> f, FrameCount |-> frames,
     Size |-> <<d.Width, d.Height>>, IsPadded |-> FALSE, IsTrimmed |-> FALSE,
     OriginalFPS |-> f]

\* types.ClipMetadata as ProcessClip fills it; IsPadded and IsTrimmed are
\* never set and keep Go's zero value.
ClipMetadata(k, idx, f, frames, d) ==
    [Key |-> ChunkKey(k, idx), FPS |-> f, FrameCount |-> frames,
     Size |-> <<d.Height, d.Width>>, IsPadded |-> FALSE, IsTrimmed |-> FALSE,
     OriginalFPS |-> f]

\* json.MarshalIndent of a types.ClipMetadata: the fields in struct order
\* under their json names; a field tagged omitempty is left out when it
\* holds its zero value (false, 0).
MarshalIndent(m) ==
    << [name |-> "key", value |-> m.Key],
       [name |-> "fps", value |-> m.FPS],
       [name |-> "frame_count", value |-> m.FrameCount],
       [name |-> "size", value |-> m.Size] >>
    \o (IF m.IsPadded THEN <<[name |-> "is_padded", value |-> TRUE]>> ELSE <<>>)
    \o (IF m.IsTrimmed THEN <<[name |-> "is_trimmed", value |-> TRUE]>> ELSE <<>>)
    \o (IF m.OriginalFPS # 0
        THEN <<[name |-> "original_fps", value |-> m.OriginalFPS]>> ELSE <<>>)

\* saveMetadata: the document written to the metadata file
saveMetadata(metadata) == MarshalIndent(metadata)

Running == [status |-> "running", cause |-> "none"]
Nil == [status |-> "nil", cause |-> "none"]
Err(cause) == [status |-> "error", cause |-> cause]
Panicked(cause) == [status |-> "panic", cause |-> cause]

\* The causes that are failures of an external collaborator
IOFaults ==
    {"writeTemp", "mkdir", "decode", "readRaw", "readDir", "saveNpy",
     "saveMeta", "mkdirChunk", "rename", "remove"}

\* defer os.Remove(tempVideoPath): runs at every return (and panic) that
\* follows its registration.
DeferredRemove(registered, exists) == IF registered THEN FALSE ELSE exists

\* A variant that records the result and carries on with the next step
ReturnAndGoOn(res) ==
    /\ result' = res
    /\ pc' = pc
    /\ tempVideo' = DeferredRemove(deferred, tempVideo)

\* A return of ProcessClip after the temp video was written.
Return(res) ==
    /\ result' = res
    /\ pc' = "done"
    /\ tempVideo' = DeferredRemove(deferred, tempVideo)

\* What a successful image-mode run on the given number of frames leaves
\* in the chunk directories: frame_001.jpg .. frame_<target>.jpg in each.
PriorRun(target, frames) ==
    {[chunk |-> c, name |-> FrameName(j)] :
        c \in 0..(GoDiv(frames, target) - 1), j \in 1..target}

\* The output directory is fresh, or holds the chunks of an earlier run on
\* the same clip with some chunk length.
PriorTrees == {{}} \cup {PriorRun(t, MaxFrames) : t \in 1..MaxTarget}

InitClip ==
    /\ key = <<"v">>
    /\ prior \in PriorTrees
    /\ format \in {FormatJPEG, FormatNPY, FormatUnsupported}
    /\ size \in SizeStrings
    /\ fps = DefaultFps
    /\ targetFrames \in -1..MaxTarget
    /\ pc = "start"
    /\ result = Running
    /\ tempVideo = FALSE
    /\ deferred = FALSE
    /\ tempRaw = FALSE
    /\ outDir = FALSE
    /\ loose = {}
    /\ dims = NoDims
    /\ rawLen = 0
    /\ frameFiles = <<>>
    /\ totalFrames = 0
    /\ numChunks = 0
    /\ i = 0
    /\ chunks = <<>>
    /\ metas = <<>>

\* os.WriteFile(tempVideoPath, ...): on failure ProcessClip returns before
\* the deferred removal is registered; a failed write may have created the
\* file already.
WriteTempVideo ==
    /\ UNCHANGED <<batchVars, shardVars, tarVars, npyVars>>
    /\ pc = "start"
    /\ \E failed \in BOOLEAN :
        IF failed
        THEN /\ tempVideo' \in BOOLEAN
             /\ result' = Err("writeTemp")
             /\ pc' = "done"
             /\ UNCHANGED deferred
        ELSE /\ tempVideo' = TRUE
             /\ deferred' = TRUE
             /\ pc' = "parse"
             /\ UNCHANGED result
    /\ UNCHANGED <<key, prior, format, size, fps, targetFrames, tempRaw, outDir,
                   loose, dims, rawLen, frameFiles, totalFrames, numChunks,
                   i, chunks, metas>>

ParseSize ==
    /\ UNCHANGED <<batchVars, shardVars, tarVars, npyVars>>
    /\ pc = "parse"
    /\ LET d == parseDimensions(size)
       IN  IF ~d.ok
           THEN Return(Err("size")) /\ UNCHANGED dims
           ELSE /\ dims' = d
                /\ pc' = "mkdir"
                /\ UNCHANGED <<result, tempVideo>>
    /\ UNCHANGED <<key, prior, format, size, fps, targetFrames, deferred, tempRaw,
                   outDir, loose, rawLen, frameFiles, totalFrames, numChunks,
                   i, chunks, metas>>

\* os.MkdirAll(outPath)
MkdirOut ==
    /\ UNCHANGED <<batchVars, shardVars, tarVars, npyVars>>
    /\ pc = "mkdir"
    /\ \E failed \in BOOLEAN :
        IF failed
        THEN Return(Err("mkdir")) /\ UNCHANGED outDir
        ELSE /\ outDir' = TRUE
             /\ pc' = "decode"
             /\ UNCHANGED <<result, tempVideo>>
    /\ UNCHANGED <<key, prior, format, size, fps, targetFrames, deferred, tempRaw,
                   loose, dims, rawLen, frameFiles, totalFrames, numChunks,
                   i, chunks, metas>>

\* extractRawFrames, first half: ffmpeg writes the raw RGB stream to
\* tempRawPath.  defer os.Remove(tempRawPath) is registered on entry, so a
\* failed run leaves no raw file behind.
ExtractRawRun ==
    /\ UNCHANGED <<batchVars, shardVars, tarVars, npyVars>>
    /\ pc = "decode"
    /\ format = FormatNPY
    /\ \E failed \in BOOLEAN :
        IF failed
        THEN /\ Return(Err("decode"))
             /\ tempRaw' = FALSE
             /\ UNCHANGED rawLen
        ELSE /\ tempRaw' = TRUE
             /\ rawLen' \in 0..MaxRawLen
             /\ pc' = "readRaw"
             /\ UNCHANGED <<result, tempVideo>>
    /\ UNCHANGED <<key, prior, format, size, fps, targetFrames, deferred, outDir,
                   loose, dims, frameFiles, totalFrames, numChunks, i,
                   chunks, metas>>

\* extractRawFrames, second half: os.ReadFile(tempRawPath), then the
\* deferred os.Remove(tempRawPath) as the function returns.
ExtractRawRead ==
    /\ UNCHANGED <<batchVars, shardVars, tarVars, npyVars>>
    /\ pc = "readRaw"
    /\ tempRaw' = FALSE
    /\ \E failed \in BOOLEAN :
        IF failed
        THEN Return(Err("readRaw"))
        ELSE /\ pc' = "plan"
             /\ UNCHANGED <<result, tempVideo>>
    /\ UNCHANGED <<key, prior, format, size, fps, targetFrames, deferred, outDir,
                   loose, dims, rawLen, frameFiles, totalFrames, numChunks,
                   i, chunks, metas>>

\* The default branch: ffmpeg writes frame_001.jpg, frame_002.jpg, ... into
\* outPath.
ExtractFramesOf(counts) ==
    /\ UNCHANGED <<batchVars, shardVars, tarVars, npyVars>>
    /\ pc = "decode"
    /\ format # FormatNPY
    /\ \E failed \in BOOLEAN :
        IF failed
        THEN Return(Err("decode")) /\ UNCHANGED loose
        ELSE /\ \E n \in counts : loose' = {FrameName(k) : k \in 1..n}
             /\ pc' = "list"
             /\ UNCHANGED <<result, tempVideo>>
    /\ UNCHANGED <<key, prior, format, size, fps, targetFrames, deferred, tempRaw,
                   outDir, dims, rawLen, frameFiles, totalFrames, numChunks,
                   i, chunks, metas>>

\* Clips of up to MaxFrames frames
ExtractFrames == ExtractFramesOf(0..MaxFrames)

\* Frame counts around the lengths at which the frame number gains a digit,
\* up to LongFrames
FrameCounts ==
    (0..MaxFrames) \cup {9, 10, 99, 100, LongFrames - 1, LongFrames}

\* Short and long clips
ExtractLongFrames == ExtractFramesOf(FrameCounts)

\* os.ReadDir(outPath), the ".jpg" filter and sort.Strings
ListFrames ==
    /\ UNCHANGED <<batchVars, shardVars, tarVars, npyVars>>
    /\ pc = "list"
    /\ \E failed \in BOOLEAN :
        IF failed
        THEN Return(Err("readDir")) /\ UNCHANGED frameFiles
        ELSE /\ frameFiles' = SortStrings({f \in loose : HasSuffix(f, StrJpg)})
             /\ pc' = "plan"
             /\ UNCHANGED <<result, tempVideo>>
    /\ UNCHANGED <<key, prior, format, size, fps, targetFrames, deferred, tempRaw,
                   outDir, loose, dims, rawLen, totalFrames, numChunks, i,
                   chunks, metas>>

\* A variant that rounds the chunk count up (counts the short tail too)
NumChunksCeil(total, target) == GoDiv(total + target - 1, target)

\* numChunks := totalFrames / targetFrames
NumChunks(total, target) == GoDiv(total, target)

frameSize == dims.Width * dims.Height * Channels

\* totalFrames as ProcessClip computes it, once its divisor is nonzero
TotalFrames ==
    IF format = FormatNPY THEN GoDiv(rawLen, frameSize) ELSE Len(frameFiles)

\* "Calculate number of frames and chunks": an integer division by zero
\* panics.
Plan ==
    /\ UNCHANGED <<batchVars, shardVars, tarVars, npyVars>>
    /\ pc = "plan"
    /\ IF format = FormatNPY /\ frameSize = 0
       THEN Return(Panicked("frameSize")) /\ UNCHANGED <<totalFrames, numChunks>>
       ELSE IF targetFrames = 0
       THEN /\ Return(Panicked("targetFrames"))
            /\ totalFrames' = TotalFrames
            /\ UNCHANGED numChunks
       ELSE /\ totalFrames' = TotalFrames
            /\ numChunks' = NumChunks(TotalFrames, targetFrames)
            /\ pc' = "chunk"
            /\ UNCHANGED <<result, tempVideo>>
    /\ i' = 0
    /\ UNCHANGED <<key, prior, format, size, fps, targetFrames, deferred, tempRaw,
                   outDir, loose, dims, rawLen, frameFiles, chunks, metas>>

\* newPath: the j-th frame of a chunk's slice (j counted from 0) is renamed
\* to frame_%03d.jpg of j + 1 inside the chunk directory.
RenamedTo(j) == FrameName(j + 1)

\* A variant whose chunks start one frame late
StartFrameLate(idx, target) == idx * target + 1

\* startFrame := i * targetFrames; endFrame := (i + 1) * targetFrames
StartFrame(idx, target) == idx * target
EndFrame(idx, target) == (idx + 1) * target

\* A Go slice expression s[lo:hi] panics unless 0 <= lo <= hi <= len(s).
SliceOk(lo, hi, length) == 0 <= lo /\ lo <= hi /\ hi <= length

\* One chunk as written: its index, the frame range [start, end) of the
\* frame stream it was cut from, the bytes [lo, hi) of the raw buffer (raw
\* mode), the frame files moved into it in order (image mode), the frame
\* count it holds, and whether its metadata file was written.
Chunk(idx, start, end, lo, hi, files, count, sealed) ==
    [index |-> idx, start |-> start, end |-> end, lo |-> lo, hi |-> hi,
     files |-> files, count |-> count, sealed |-> sealed]

\* One iteration of the raw-mode loop: slice the buffer, saveNumpyArray,
\* saveMetadata.
ChunkNPY ==
    /\ UNCHANGED <<batchVars, shardVars, tarVars, npyVars>>
    /\ pc = "chunk"
    /\ format = FormatNPY
    /\ i < numChunks
    /\ LET startFrame == StartFrame(i, targetFrames)
           endFrame == EndFrame(i, targetFrames)
           lo == startFrame * frameSize
           hi == endFrame * frameSize
           written == Chunk(i, startFrame, endFrame, lo, hi, <<>>,
                            targetFrames, FALSE)
       IN  IF ~SliceOk(lo, hi, rawLen)
           THEN Return(Panicked("slice")) /\ UNCHANGED <<i, chunks, metas>>
           ELSE \E failed \in {"none", "saveNpy", "saveMeta"} :
                  CASE failed = "saveNpy" ->
                         Return(Err("saveNpy")) /\ UNCHANGED <<i, chunks, metas>>
                    [] failed = "saveMeta" ->
                         /\ chunks' = Append(chunks, written)
                         /\ Return(Err("saveMeta"))
                         /\ UNCHANGED <<i, metas>>
                    [] OTHER ->
                         /\ chunks' = Append(chunks, [written EXCEPT !.sealed = TRUE])
                         /\ metas' = Append(metas,
                                saveMetadata(ClipMetadata(key, i, fps, targetFrames, dims)))
                         /\ i' = i + 1
                         /\ UNCHANGED <<pc, result, tempVideo>>
    /\ UNCHANGED <<key, prior, format, size, fps, targetFrames, deferred, tempRaw,
                   outDir, loose, dims, rawLen, frameFiles, totalFrames,
                   numChunks>>

\* "Handle remaining frames if they form a complete chunk":
\* remainingFrames == targetFrames.
RemainderIsChunk(total, target) == GoMod(total, target) = target

\* After the raw-mode loop: the remainder branch, else return nil.
FinishNPY ==
    /\ UNCHANGED <<batchVars, shardVars, tarVars, npyVars>>
    /\ pc = "chunk"
    /\ format = FormatNPY
    /\ i >= numChunks
    /\ IF RemainderIsChunk(totalFrames, targetFrames)
       THEN LET startFrame == numChunks * targetFrames
                endFrame == startFrame + targetFrames
            IN  IF ~SliceOk(startFrame * frameSize, endFrame * frameSize, rawLen)
                THEN Return(Panicked("slice")) /\ UNCHANGED <<chunks, metas>>
                ELSE /\ chunks' = Append(chunks,
                            Chunk(numChunks, startFrame, endFrame,
                                  startFrame * frameSize, endFrame * frameSize,
                                  <<>>, targetFrames, TRUE))
                     /\ metas' = Append(metas,
                            saveMetadata(ClipMetadata(key, numChunks, fps, targetFrames, dims)))
                     /\ Return(Nil)
       ELSE Return(Nil) /\ UNCHANGED <<chunks, metas>>
    /\ UNCHANGED <<key, prior, format, size, fps, targetFrames, deferred, tempRaw,
                   outDir, loose, dims, rawLen, frameFiles, totalFrames,
                   numChunks, i>>

\* The frame files in the directory of a chunk: those renamed into it, under
\* their new names, next to those a previous run left there (os.MkdirAll
\* succeeds on a directory that exists and removes nothing; os.Rename
\* replaces a file of the same name).
ChunkDirFrames(c) ==
    {RenamedTo(j - 1) : j \in 1..Len(c.files)}
    \cup {p.name : p \in {q \in prior : q.chunk = c.index}}

\* The file now stored under a name in a chunk directory: the frame renamed
\* to it, else the file the previous run left.
ChunkDirSource(c, name) ==
    IF \E j \in 1..Len(c.files) : RenamedTo(j - 1) = name
    THEN c.files[CHOOSE j \in 1..Len(c.files) : RenamedTo(j - 1) = name]
    ELSE <<"p", "r", "i", "o", "r">>

\* chunkDir: the name of the directory of chunk idx inside the clip's
\* output directory
ChunkDirName(idx) == StrChunkPrefix \o FmtD(idx, ChunkDigits)

\* The entries of the clip's output directory in image mode: the frame
\* files still in it and the chunk directories, those of a previous run
\* included.
ClipDirEntries ==
    loose
    \cup {ChunkDirName(chunks[k].index) : k \in 1..Len(chunks)}
    \cup {ChunkDirName(p.chunk) : p \in prior}

\* One iteration of the image-mode loop: MkdirAll(chunkDir), os.Rename of
\* each frame of frameFiles[startIdx:endIdx] to frame_%03d.jpg (j+1), then
\* saveMetadata.  A rename that fails leaves the frames before it moved.
ChunkJPEG ==
    /\ UNCHANGED <<batchVars, shardVars, tarVars, npyVars>>
    /\ pc = "chunk"
    /\ format # FormatNPY
    /\ i < numChunks
    /\ LET startIdx == StartFrame(i, targetFrames)
           endIdx == EndFrame(i, targetFrames)
           slice == SubSeq(frameFiles, startIdx + 1, endIdx)
           moved(n) == SubSeq(slice, 1, n)
           dir(n, sealed) ==
               Chunk(i, startIdx, endIdx, 0, 0, moved(n), n, sealed)
       IN  IF ~SliceOk(startIdx, endIdx, Len(frameFiles))
           THEN /\ Return(Panicked("slice"))
                /\ UNCHANGED <<i, chunks, metas, loose>>
           ELSE \E failed \in {"none", "mkdirChunk", "rename", "saveMeta"} :
                  CASE failed = "mkdirChunk" ->
                         /\ Return(Err("mkdirChunk"))
                         /\ UNCHANGED <<i, chunks, metas, loose>>
                    [] failed = "rename" ->
                         \E j \in 1..Len(slice) :
                            /\ chunks' = Append(chunks, dir(j - 1, FALSE))
                            /\ loose' = loose \ {slice[k] : k \in 1..(j - 1)}
                            /\ Return(Err("rename"))
                            /\ UNCHANGED <<i, metas>>
                    [] failed = "saveMeta" ->
                         /\ chunks' = Append(chunks, dir(Len(slice), FALSE))
                         /\ loose' = loose \ {slice[k] : k \in 1..Len(slice)}
                         /\ Return(Err("saveMeta"))
                         /\ UNCHANGED <<i, metas>>
                    [] OTHER ->
                         /\ chunks' = Append(chunks, dir(Len(slice), TRUE))
                         /\ loose' = loose \ {slice[k] : k \in 1..Len(slice)}
                         /\ metas' = Append(metas,
                                saveMetadata(ClipMetadata(key, i, fps, targetFrames, dims)))
                         /\ i' = i + 1
                         /\ UNCHANGED <<pc, result, tempVideo>>
    /\ UNCHANGED <<key, prior, format, size, fps, targetFrames, deferred, tempRaw,
                   outDir, dims, rawLen, frameFiles, totalFrames, numChunks>>

\* After the image-mode loop: the remainder branch, else os.Remove of every
\* frame of frameFiles[numChunks*targetFrames:]; a removal that fails
\* returns with the frames before it removed.
FinishJPEG ==
    /\ UNCHANGED <<batchVars, shardVars, tarVars, npyVars>>
    /\ pc = "chunk"
    /\ format # FormatNPY
    /\ i >= numChunks
    /\ IF RemainderIsChunk(totalFrames, targetFrames)
       THEN LET startIdx == numChunks * targetFrames
                endIdx == startIdx + targetFrames
                slice == SubSeq(frameFiles, startIdx + 1, endIdx)
            IN  IF ~SliceOk(startIdx, endIdx, Len(frameFiles))
                THEN /\ Return(Panicked("slice"))
                     /\ UNCHANGED <<chunks, metas, loose>>
                ELSE /\ chunks' = Append(chunks,
                            Chunk(numChunks, startIdx, endIdx, 0, 0, slice,
                                  Len(slice), TRUE))
                     /\ loose' = loose \ {slice[k] : k \in 1..Len(slice)}
                     /\ metas' = Append(metas,
                            saveMetadata(ClipMetadata(key, numChunks, fps, targetFrames, dims)))
                     /\ Return(Nil)
       ELSE LET from == numChunks * targetFrames
                rest == SubSeq(frameFiles, from + 1, Len(frameFiles))
            IN  IF ~SliceOk(from, Len(frameFiles), Len(frameFiles))
                THEN Return(Panicked("slice")) /\ UNCHANGED <<chunks, metas, loose>>
                ELSE \E failedAt \in 0..Len(rest) :
                       IF failedAt = 0
                       THEN /\ loose' = loose \ {rest[k] : k \in 1..Len(rest)}
                            /\ Return(Nil)
                            /\ UNCHANGED <<chunks, metas>>
                       ELSE /\ loose' = loose \ {rest[k] : k \in 1..(failedAt - 1)}
                            /\ Return(Err("remove"))
                            /\ UNCHANGED <<chunks, metas>>
    /\ UNCHANGED <<key, prior, format, size, fps, targetFrames, deferred, tempRaw,
                   outDir, dims, rawLen, frameFiles, totalFrames, numChunks, i>>

\* ProcessClip in image mode up to the sorted frame list
NextFrames ==
    \/ WriteTempVideo
    \/ ParseSize
    \/ MkdirOut
    \/ ExtractLongFrames
    \/ ListFrames

NextClip ==
    \/ WriteTempVideo
    \/ ParseSize
    \/ MkdirOut
    \/ ExtractRawRun
    \/ ExtractRawRead
    \/ ExtractFrames
    \/ ListFrames
    \/ Plan
    \/ ChunkNPY
    \/ FinishNPY
    \/ ChunkJPEG
    \/ FinishJPEG

\* ------------------------------------------------------------ ProcessClips
\* ProcessClips(clips, outputDir, fps, size, format, targetFrames,
\* numWorkers): the main goroutine and its workers, one step per channel
\* operation.  Clips are named by their position 1..nClips in the list.
Max(a, b) == IF a >= b THEN a ELSE b

\* Worker slots the model provides: enough for every numWorkers reached
WorkerSlots == 1..Max(DefaultWorkers, MaxWorkerCount)

\* if numWorkers <= 0 { numWorkers = 4 }
EffectiveWorkers(n) == IF n <= 0 THEN DefaultWorkers ELSE n

\* jobs := make(chan types.Clip, len(clips))
JobsCap(n) == n

\* A variant whose error buffer is one slot short
ErrorsCapShort(n) == n - 1

\* errors := make(chan error, len(clips))
ErrorsCap(n) == n

\* A variant of the worker-start loop that runs once more (i <= numWorkers)
MoreToSpawnInclusive(started, n) == started <= n

\* for i := 0; i < numWorkers; i++
MoreToSpawn(started, n) == started < n

\* wg.Wait() returns once the counter is zero
WaitReturns(counter) == counter = 0

\* A failed clip leaves the jobs channel as it is
JobsAfterError(queue) == queue

\* How a call ProcessClip(clip, ..., size, format, targetFrames) can end:
\* with an error whenever an external operation fails or the size is
\* malformed; otherwise in a panic when a divisor is zero, else with nil.
ProcessClipOutcomes(fmt, sz, target) ==
    LET d == parseDimensions(sz)
    IN  IF ~d.ok THEN {"error"}
        ELSE IF (fmt = FormatNPY /\ d.Width * d.Height * Channels = 0) \/ target = 0
        THEN {"error", "panic"}
        ELSE {"error", "nil"}

Unborn == [pc |-> "unborn", clip |-> 0]

InitBatch ==
    /\ nClips \in 0..MaxClips
    /\ workerCount \in -1..MaxWorkerCount
    /\ numWorkers = 0
    /\ mainPc = "start"
    /\ spawned = 0
    /\ sent = 0
    /\ jobs = <<>>
    /\ jobsClosed = FALSE
    /\ errors = <<>>
    /\ wg = 0
    /\ worker = [w \in WorkerSlots |-> Unborn]
    /\ handed = [c \in 1..nClips |-> 0]
    /\ outcome = [c \in 1..nClips |-> "none"]
    /\ errs = <<>>
    /\ batchResult = [status |-> "running"]
    /\ panicking = FALSE

\* The default worker count and the two make(chan ...) calls
Setup ==
    /\ UNCHANGED <<clipVars, shardVars, tarVars, npyVars>>
    /\ mainPc = "start"
    /\ numWorkers' = EffectiveWorkers(workerCount)
    /\ mainPc' = "spawn"
    /\ UNCHANGED <<nClips, panicking, workerCount, spawned, sent, jobs, jobsClosed,
                   errors, wg, worker, handed, outcome, errs, batchResult>>

\* wg.Add(1); go func() { ... }()
Spawn ==
    /\ UNCHANGED <<clipVars, shardVars, tarVars, npyVars>>
    /\ mainPc = "spawn"
    /\ wg' = wg + 1
    /\ spawned' = spawned + 1
    /\ worker' = [worker EXCEPT ![spawned + 1] = [pc |-> "recv", clip |-> 0]]
    /\ mainPc' = IF MoreToSpawn(spawned + 1, numWorkers) THEN "spawn" ELSE "send"
    /\ UNCHANGED <<nClips, panicking, workerCount, numWorkers, sent, jobs, jobsClosed,
                   errors, handed, outcome, errs, batchResult>>

\* jobs <- clip: blocks while the buffer is full
SendJob ==
    /\ UNCHANGED <<clipVars, shardVars, tarVars, npyVars>>
    /\ mainPc = "send"
    /\ sent < nClips
    /\ Len(jobs) < JobsCap(nClips)
    /\ jobs' = Append(jobs, sent + 1)
    /\ sent' = sent + 1
    /\ UNCHANGED <<nClips, panicking, workerCount, numWorkers, mainPc, spawned,
                   jobsClosed, errors, wg, worker, handed, outcome, errs,
                   batchResult>>

\* close(jobs)
CloseJobs ==
    /\ UNCHANGED <<clipVars, shardVars, tarVars, npyVars>>
    /\ mainPc = "send"
    /\ sent = nClips
    /\ jobsClosed' = TRUE
    /\ mainPc' = "wait"
    /\ UNCHANGED <<nClips, panicking, workerCount, numWorkers, spawned, sent, jobs,
                   errors, wg, worker, handed, outcome, errs, batchResult>>

\* wg.Wait(); close(errors)
WaitWorkers ==
    /\ UNCHANGED <<clipVars, shardVars, tarVars, npyVars>>
    /\ mainPc = "wait"
    /\ WaitReturns(wg)
    /\ mainPc' = "collect"
    /\ UNCHANGED <<nClips, panicking, workerCount, numWorkers, spawned, sent, jobs,
                   jobsClosed, errors, wg, worker, handed, outcome, errs,
                   batchResult>>

\* for err := range errors { errs = append(errs, err) }, then the return
Collect ==
    /\ UNCHANGED <<clipVars, shardVars, tarVars, npyVars>>
    /\ mainPc = "collect"
    /\ errs' = errs \o errors
    /\ errors' = <<>>
    /\ batchResult' =
          IF Len(errs') > 0
          THEN [status |-> "error", count |-> Len(errs'), entries |-> errs']
          ELSE [status |-> "nil"]
    /\ mainPc' = "done"
    /\ UNCHANGED <<nClips, panicking, workerCount, numWorkers, spawned, sent,
                   jobs, jobsClosed, wg, worker, handed, outcome>>

\* for clip := range jobs: a clip is received and ProcessClip is called
WorkerReceive(w) ==
    /\ UNCHANGED <<clipVars, shardVars, tarVars, npyVars>>
    /\ mainPc # "crashed"
    /\ worker[w].pc = "recv"
    /\ jobs # <<>>
    /\ worker' = [worker EXCEPT ![w] = [pc |-> "process", clip |-> Head(jobs)]]
    /\ jobs' = Tail(jobs)
    /\ handed' = [handed EXCEPT ![Head(jobs)] = @ + 1]
    /\ outcome' = [outcome EXCEPT ![Head(jobs)] = "running"]
    /\ UNCHANGED <<nClips, panicking, workerCount, numWorkers, mainPc, spawned, sent,
                   jobsClosed, errors, wg, errs, batchResult>>

\* ProcessClip returns, or panics: the panic unwinds the goroutine, so the
\* deferred wg.Done() runs and the worker is gone, and the process goes on
\* until the runtime ends it.
WorkerProcess(w) ==
    /\ UNCHANGED <<clipVars, shardVars, tarVars, npyVars>>
    /\ mainPc # "crashed"
    /\ worker[w].pc = "process"
    /\ \E o \in ProcessClipOutcomes(format, size, targetFrames) :
        /\ outcome' = [outcome EXCEPT ![worker[w].clip] = o]
        /\ CASE o = "nil" ->
                  /\ worker' = [worker EXCEPT ![w] = [pc |-> "recv", clip |-> 0]]
                  /\ UNCHANGED <<jobs, wg, panicking>>
             [] o = "error" ->
                  /\ worker' = [worker EXCEPT ![w].pc = "sendErr"]
                  /\ jobs' = JobsAfterError(jobs)
                  /\ UNCHANGED <<wg, panicking>>
             [] OTHER ->
                  /\ worker' = [worker EXCEPT ![w] = [pc |-> "exited", clip |-> 0]]
                  /\ wg' = wg - 1
                  /\ panicking' = TRUE
                  /\ UNCHANGED jobs
    /\ UNCHANGED <<nClips, workerCount, numWorkers, mainPc, spawned, sent,
                   jobsClosed, errors, handed, errs, batchResult>>

\* errors <- fmt.Errorf("error processing %s: %v", clip.Key, err): blocks
\* while the buffer is full
WorkerSendError(w) ==
    /\ UNCHANGED <<clipVars, shardVars, tarVars, npyVars>>
    /\ mainPc # "crashed"
    /\ worker[w].pc = "sendErr"
    /\ Len(errors) < ErrorsCap(nClips)
    /\ errors' = Append(errors, [key |-> worker[w].clip, cause |-> "error"])
    /\ worker' = [worker EXCEPT ![w] = [pc |-> "recv", clip |-> 0]]
    /\ UNCHANGED <<nClips, panicking, workerCount, numWorkers, mainPc, spawned, sent,
                   jobs, jobsClosed, wg, handed, outcome, errs, batchResult>>

\* The range loop ends once jobs is closed and drained; defer wg.Done()
WorkerExit(w) ==
    /\ UNCHANGED <<clipVars, shardVars, tarVars, npyVars>>
    /\ mainPc # "crashed"
    /\ worker[w].pc = "recv"
    /\ jobs = <<>>
    /\ jobsClosed
    /\ worker' = [worker EXCEPT ![w] = [pc |-> "exited", clip |-> 0]]
    /\ wg' = wg - 1
    /\ UNCHANGED <<nClips, panicking, workerCount, numWorkers, mainPc, spawned, sent,
                   jobs, jobsClosed, errors, handed, outcome, errs,
                   batchResult>>

\* The runtime reports the panic and ends the process, wherever the other
\* goroutines stand: after ProcessClips has returned, too.
ProcessExit ==
    /\ UNCHANGED <<clipVars, shardVars, tarVars, npyVars>>
    /\ panicking
    /\ mainPc # "crashed"
    /\ mainPc' = "crashed"
    /\ UNCHANGED <<nClips, panicking, workerCount, numWorkers, spawned, sent,
                   jobs, jobsClosed, errors, wg, worker, handed, outcome,
                   errs, batchResult>>

NextBatch ==
    \/ Setup
    \/ Spawn
    \/ SendJob
    \/ CloseJobs
    \/ WaitWorkers
    \/ Collect
    \/ \E w \in WorkerSlots : WorkerReceive(w)
    \/ \E w \in WorkerSlots : WorkerProcess(w)
    \/ \E w \in WorkerSlots : WorkerSendError(w)
    \/ \E w \in WorkerSlots : WorkerExit(w)
    \/ ProcessExit

\* -------------------------------------------------- CreateWebDatasetShards

\* A variant that rounds the shard count down
NumShardsFloor(n, capacity) == GoDiv(n, capacity)

\* numShards := (len(samples) + shardSize - 1) / shardSize
NumShards(n, capacity) == GoDiv(n + capacity - 1, capacity)

\* end := (i + 1) * shardSize; if end > len(samples) { end = len(samples) }
ShardEnd(idx, capacity, n) ==
    IF (idx + 1) * capacity > n THEN n ELSE (idx + 1) * capacity

StrShardPrefix == <<"s", "h", "a", "r", "d", "_">>
StrTar == <<".", "t", "a", "r">>

\* fmt.Sprintf("shard_%05d.tar", i)
ShardName(idx) == StrShardPrefix \o FmtD(idx, ChunkDigits) \o StrTar

\* fmt.Errorf("error creating shard %d: %v", i, err)
ShardError(idx) == [status |-> "error", shard |-> idx]

StrNpy == <<".", "n", "p", "y">>
StrMetadataJson ==
    <<"m", "e", "t", "a", "d", "a", "t", "a", ".", "j", "s", "o", "n">>
StrInputDir == <<"o">>

\* The path of chunk k - 1 (k = 1, 2, ...) of a clip under the input
\* directory "o", as ProcessClip lays it out: the file
\* o/<clip>/chunk_<k-1>.npy in NPY mode, the directory o/<clip>/chunk_<k-1>
\* in JPEG mode.
SamplePath(clip, k, fmt) ==
    StrInputDir \o <<"/">> \o clip \o <<"/">> \o StrChunkPrefix
        \o FmtD(k - 1, ChunkDigits)
        \o (IF fmt = FormatNPY THEN StrNpy ELSE <<>>)

\* The files of a chunk directory, in the order filepath.Walk meets them
ChunkFiles == << FrameName(1), StrMetadataJson >>

\* One entry of the tree under the input directory: its path, whether it is
\* a directory, and whether a metadata.json lies directly inside it.
Node(path, isDir, hasMeta) ==
    [path |-> path, isDir |-> isDir, hasMeta |-> hasMeta]

\* The entries of a clip's directory with n chunks, in lexical order.  In
\* NPY mode chunk_<k>.npy is followed by chunk_<k>_metadata.json; in JPEG
\* mode every chunk is a directory holding a metadata.json.
ClipNodes(clip, n, fmt) ==
    <<Node(StrInputDir \o <<"/">> \o clip, TRUE, FALSE)>> \o
    (IF fmt = FormatNPY
     THEN [j \in 1..(2 * n) |->
             IF j % 2 = 1
             THEN Node(SamplePath(clip, (j + 1) \div 2, fmt), FALSE, FALSE)
             ELSE Node(TrimSuffix(SamplePath(clip, j \div 2, fmt), StrNpy)
                          \o <<"_">> \o StrMetadataJson, FALSE, FALSE)]
     ELSE [j \in 1..n |-> Node(SamplePath(clip, j, fmt), TRUE, TRUE)])

\* A directory that holds a metadata.json and is not named after a chunk
OddNode == Node(<<"o", "/", "v", "/", "r", "a", "w">>, TRUE, TRUE)

\* The tree under the input directory in the order filepath.Walk visits it
\* (lexical): the root, clip "v" with nv chunks, optionally the directory
\* o/v/raw, and clip "w" with nw chunks.
Tree(nv, nw, odd, fmt) ==
    <<Node(StrInputDir, TRUE, FALSE)>>
    \o ClipNodes(<<"v">>, nv, fmt)
    \o (IF odd THEN <<OddNode>> ELSE <<>>)
    \o ClipNodes(<<"w">>, nw, fmt)

Trees(fmt) ==
    {Tree(nv, nw, odd, fmt) :
        nv \in 0..MaxSamples, nw \in 0..MaxOtherChunks, odd \in BOOLEAN}

\* strings.Contains
Contains(s, sub) ==
    \E k \in 0..(Len(s) - Len(sub)) : SubSeq(s, k + 1, k + Len(sub)) = sub

\* The body of the walk function: whether the entry is appended to samples
IsSample(node, fmt) ==
    CASE fmt = FormatNPY -> ~node.isDir /\ HasSuffix(node.path, StrNpy)
      [] fmt = FormatJPEG ->
            /\ node.isDir
            /\ Contains(node.path, StrChunkPrefix)
            /\ node.hasMeta
      [] OTHER -> FALSE

\* The samples a walk collects from the entries it visits
Collected(nodes, fmt) ==
    LET hits == SelectSeq(nodes, LAMBDA n : IsSample(n, fmt))
    IN  [k \in 1..Len(hits) |-> hits[k].path]

\* filepath.Dir for a slash-separated path with a directory part
Dir(path) == SubSeq(path, 1, Len(path) - Len(Base(path)) - 1)

\* filepath.Join(a, b) for a clean, non-empty path a and an element b that
\* is empty, "." or a clean path: an empty element is left out, and Clean
\* drops a final "." element
Join(a, b) == IF b = <<>> \/ b = <<".">> THEN a ELSE a \o <<"/">> \o b

\* filepath.Rel(basepath, targpath) for a target below the base
Rel(basepath, targpath) ==
    SubSeq(targpath, Len(basepath) + 2, Len(targpath))

\* relPath, err := filepath.Rel(filepath.Dir(sample), path);
\* tarPath := filepath.Join(filepath.Base(sample), relPath)
TarPath(sample, path) == Join(Base(sample), Rel(Dir(sample), path))

\* The header names createShard writes for one sample, in order: the base
\* name of an .npy file, or tarPath for every file filepath.Walk(sample)
\* meets
HeaderNames(sample, fmt) ==
    IF fmt = FormatNPY THEN <<Base(sample)>>
    ELSE [f \in 1..Len(ChunkFiles) |-> TarPath(sample, Join(sample, ChunkFiles[f]))]

\* The header names of a run of samples
RECURSIVE AllHeaderNames(_, _)
AllHeaderNames(part, fmt) ==
    IF part = <<>> THEN <<>>
    ELSE HeaderNames(Head(part), fmt)
            \o AllHeaderNames(Tail(part), fmt)

InitShard ==
    /\ tree \in Trees(format)
    /\ walkFailed = FALSE
    /\ samples = <<>>
    /\ shardSize \in 1..MaxShardSize
    /\ shardPc = "walk"
    /\ shardI = 0
    /\ shards = <<>>
    /\ shardFaults = <<>>
    /\ shardResult = [status |-> "running"]

\* filepath.Walk(inputDir, ...) appends every sample it meets.  When an
\* entry cannot be read the walk function returns the error and the walk
\* stops there; the value filepath.Walk returns is not looked at.
Discover ==
    /\ UNCHANGED <<clipVars, batchVars, tarVars, npyVars>>
    /\ shardPc = "walk"
    /\ \E visited \in 0..Len(tree) :
          /\ samples' = Collected(SubSeq(tree, 1, visited), format)
          /\ walkFailed' = (visited < Len(tree))
    /\ shardPc' = "loop"
    /\ UNCHANGED <<tree, shardSize, shardI, shards, shardFaults, shardResult>>

\* One iteration of the shard loop: createShard(shardPath,
\* samples[start:end], format).  os.Create, and per file of a sample the
\* read, the header write and the data write, may fail: createShard returns
\* the error and the shard file keeps the samples written before it, the
\* headers of the failing sample's earlier files and, when the data write
\* failed, the header of the failing file.  The deferred tw.Close() writes
\* the archive trailer unless a header or data write has failed before (the
\* tar writer keeps that error and Close returns it at once); an error of
\* tw.Close() is discarded.
CreateShard ==
    /\ UNCHANGED <<clipVars, batchVars, tarVars, npyVars>>
    /\ shardPc = "loop"
    /\ shardI < NumShards(Len(samples), shardSize)
    /\ LET start == shardI * shardSize
           end == ShardEnd(shardI, shardSize, Len(samples))
           part == SubSeq(samples, start + 1, end)
           file(entries, extra, closed) ==
               [index |-> shardI, name |-> ShardName(shardI),
                entries |-> entries,
                names |-> AllHeaderNames(entries, format) \o extra,
                closed |-> closed]
           failure(op, at) == [shard |-> shardI, op |-> op, at |-> at]
       IN  \/ /\ shards' = Append(shards, file(part, <<>>, TRUE))
              /\ shardI' = shardI + 1
              /\ UNCHANGED <<shardPc, shardFaults, shardResult>>
           \/ /\ shardFaults' = Append(shardFaults, failure("create", 0))
              /\ shardResult' = ShardError(shardI)
              /\ shardPc' = "done"
              /\ UNCHANGED <<shards, shardI>>
           \/ \E op \in {"read", "header", "write"}, k \in 1..Len(part) :
              \E m \in 0..(Len(HeaderNames(part[k], format)) - 1) :
                 /\ shards' = Append(shards,
                        file(SubSeq(part, 1, k - 1),
                             SubSeq(HeaderNames(part[k], format), 1,
                                    IF op = "write" THEN m + 1 ELSE m),
                             op = "read"))
                 /\ shardFaults' = Append(shardFaults, failure(op, k))
                 /\ shardResult' = ShardError(shardI)
                 /\ shardPc' = "done"
                 /\ UNCHANGED shardI
           \/ /\ shards' = Append(shards, file(part, <<>>, FALSE))
              /\ shardFaults' = Append(shardFaults, failure("close", 0))
              /\ shardI' = shardI + 1
              /\ UNCHANGED <<shardPc, shardResult>>
    /\ UNCHANGED <<tree, walkFailed, samples, shardSize>>

\* The loop is over: return nil
FinishShards ==
    /\ UNCHANGED <<clipVars, batchVars, tarVars, npyVars>>
    /\ shardPc = "loop"
    /\ shardI >= NumShards(Len(samples), shardSize)
    /\ shardResult' = [status |-> "nil"]
    /\ shardPc' = "done"
    /\ UNCHANGED <<tree, walkFailed, samples, shardSize, shardI, shards,
                   shardFaults>>

NextShard == Discover \/ CreateShard \/ FinishShards


\* ------------------------------------------------ the paths a clip uses

\* os.TempDir() and the outputDir argument: two different directories
StrTempDir == <<"t">>
StrOutputDir == <<"o">>
StrRawSuffix == <<"_", "r", "a", "w">>

\* tempVideoPath in ProcessClip
TempVideoPath(k) == Join(StrTempDir, k \o StrMp4)

\* tempRawPath in extractRawFrames: only the last element of the video path
\* is kept
TempRawPath(videoPath) == Join(StrTempDir, Base(videoPath) \o StrRawSuffix)

\* outPath in ProcessClip
OutPath(k) == Join(StrOutputDir, k)

\* The paths a ProcessClip call writes and removes: the temporary video, the
\* clip's output directory and, for arrays, the temporary raw file.
ClipPaths(k, fmt) ==
    {TempVideoPath(k), OutPath(k)}
    \cup (IF fmt = FormatNPY THEN {TempRawPath(TempVideoPath(k))} ELSE {})

\* ----------------------------------------------------- ExtractClipsFromTar
\* The entry names tried: "v.mp4", "._v.mp4" (the macOS companion of
\* v.mp4), "d/v.mp4", "n.txt" and "w.mp4".
EntryNames ==
    { <<"v", ".", "m", "p", "4">>,
      <<".", "_", "v", ".", "m", "p", "4">>,
      <<"d", "/", "v", ".", "m", "p", "4">>,
      <<"n", ".", "t", "x", "t">>,
      <<"w", ".", "m", "p", "4">> }

RECURSIVE SeqsUpTo(_, _)
SeqsUpTo(S, n) ==
    IF n = 0 THEN {<<>>}
    ELSE SeqsUpTo(S, n - 1) \cup
         {Append(s, x) : s \in {t \in SeqsUpTo(S, n - 1) : Len(t) = n - 1}, x \in S}

\* if !strings.HasSuffix(hdr.Name, ".mp4") { continue }
IsClipEntry(name) == HasSuffix(name, StrMp4)

\* key := strings.TrimSuffix(filepath.Base(hdr.Name), ".mp4")
ClipKey(name) == TrimSuffix(Base(name), StrMp4)

\* types.Clip; the entry's position stands for its bytes
Clip(name, position) == [Key |-> ClipKey(name), RawData |-> position]

InitTar ==
    /\ archive \in SeqsUpTo(EntryNames, MaxEntries)
    /\ tarPc = "open"
    /\ tarPos = 0
    /\ clips = <<>>
    /\ tarResult = [status |-> "running", clips |-> <<>>]

\* os.Open(tarPath)
OpenTar ==
    /\ UNCHANGED <<clipVars, batchVars, shardVars, npyVars>>
    /\ tarPc = "open"
    /\ \E failed \in BOOLEAN :
        IF failed
        THEN /\ tarResult' = [status |-> "error", clips |-> <<>>]
             /\ tarPc' = "done"
        ELSE /\ tarPc' = "read"
             /\ UNCHANGED tarResult
    /\ UNCHANGED <<archive, tarPos, clips>>

\* One iteration of the loop: tr.Next(), the suffix test, io.Copy, append.
\* An error of tr.Next() or io.Copy returns (nil, err).
NextEntry ==
    /\ UNCHANGED <<clipVars, batchVars, shardVars, npyVars>>
    /\ tarPc = "read"
    /\ tarPos < Len(archive)
    /\ LET name == archive[tarPos + 1]
       IN  \E failed \in {"none", "next", "copy"} :
             CASE failed = "next" \/ (failed = "copy" /\ IsClipEntry(name)) ->
                    /\ tarResult' = [status |-> "error", clips |-> <<>>]
                    /\ tarPc' = "done"
                    /\ UNCHANGED <<tarPos, clips>>
               [] OTHER ->
                    /\ tarPos' = tarPos + 1
                    /\ clips' = IF IsClipEntry(name)
                                THEN Append(clips, Clip(name, tarPos + 1))
                                ELSE clips
                    /\ UNCHANGED <<tarPc, tarResult>>
    /\ UNCHANGED archive

\* tr.Next() returns io.EOF: return clips, nil
EndOfArchive ==
    /\ UNCHANGED <<clipVars, batchVars, shardVars, npyVars>>
    /\ tarPc = "read"
    /\ tarPos = Len(archive)
    /\ tarResult' = [status |-> "nil", clips |-> clips]
    /\ tarPc' = "done"
    /\ UNCHANGED <<archive, tarPos, clips>>

NextTar == OpenTar \/ NextEntry \/ EndOfArchive

\* ------------------------------------------------------- numpy.Writer
\* NewWriter, Writer.Write and createHeader.  A file is a sequence of bytes
\* (0..255); text is turned into its ASCII bytes.

\* The printable ASCII characters, codes 32..126 in order (the double quote,
\* the backslash and the backtick, which no text here contains, by name)
Printable == 
    <<
      " ", "!", "quote", "#", "$", "%", "&", "'", "(", ")", "*", "+",
      ",", "-", ".", "/", "0", "1", "2", "3", "4", "5", "6", "7",
      "8", "9", ":", ";", "<", "=", ">", "?", "@", "A", "B", "C",
      "D", "E", "F", "G", "H", "I", "J", "K", "L", "M", "N", "O",
      "P", "Q", "R", "S", "T", "U", "V", "W", "X", "Y", "Z", "[",
      "backslash", "]", "^", "_", "backtick", "a", "b", "c", "d", "e", "f", "g",
      "h", "i", "j", "k", "l", "m", "n", "o", "p", "q", "r", "s",
      "t", "u", "v", "w", "x", "y", "z", "{", "|", "}", "~" >>

\* The byte of a character
ByteOf(c) == 31 + (CHOOSE k \in 1..Len(Printable) : Printable[k] = c)

\* []byte(s)
StringBytes(s) == [k \in 1..Len(s) |-> ByteOf(s[k])]

\* "{'descr': '<u1', 'fortran_order': False, 'shape': ("
StrDictPrefix ==
    <<
      "{", "'", "d", "e", "s", "c", "r", "'", ":", " ", "'", "<",
      "u", "1", "'", ",", " ", "'", "f", "o", "r", "t", "r", "a",
      "n", "_", "o", "r", "d", "e", "r", "'", ":", " ", "F", "a",
      "l", "s", "e", ",", " ", "'", "s", "h", "a", "p", "e", "'",
      ":", " ", "(" >>

StrDictSuffix == <<")", "}">>

\* []byte{0x93, 'N', 'U', 'M', 'P', 'Y', 0x01, 0x00}
MagicAndVersion ==
    <<147, ByteOf("N"), ByteOf("U"), ByteOf("M"), ByteOf("P"), ByteOf("Y"), 1, 0>>

\* One pass of the loop over shape: fmt.Sprintf("%d", s), then ", " unless
\* s is the last element
ShapeItem(sh, k) ==
    FmtD(sh[k], 0) \o (IF k < Len(sh) THEN <<",", " ">> ELSE <<>>)

\* The passes lo..hi of the loop, in order
RECURSIVE ShapeItems(_, _, _)
ShapeItems(sh, lo, hi) ==
    IF lo > hi THEN <<>>
    ELSE IF lo = hi THEN ShapeItem(sh, lo)
    ELSE LET mid == (lo + hi) \div 2
         IN  ShapeItems(sh, lo, mid) \o ShapeItems(sh, mid + 1, hi)

\* shapeStr.Bytes()
DictBytes(sh) ==
    StringBytes(StrDictPrefix \o ShapeItems(sh, 1, Len(sh)) \o StrDictSuffix)

\* A variant without the final reduction: 16 bytes of padding for a header
\* that is already aligned
PaddingUnreduced(dictLen) == 16 - GoMod(dictLen + 10, 16)

\* padding := (16 - (currentHeaderSize % 16)) % 16, with
\* currentHeaderSize := len(dictBytes) + 10
Padding(dictLen) == GoMod(16 - GoMod(dictLen + 10, 16), 16)

\* The conversion uint16(n) of a non-negative int
Uint16(n) == n % 65536

\* binary.Write(&fullHeader, binary.LittleEndian, v) of a uint16
LittleEndian16(v) == <<v % 256, v \div 256>>

\* createHeader(shape)
createHeader(sh) ==
    LET dictBytes == DictBytes(sh)
        padding == Padding(Len(dictBytes))
        headerDictWithPaddingLen == Uint16(Len(dictBytes) + padding)
    IN  MagicAndVersion
        \o LittleEndian16(headerDictWithPaddingLen)
        \o dictBytes
        \o [k \in 1..padding |-> ByteOf(" ")]

\* The dimension values and the shapes tried: every shape of up to MaxDims
\* dimensions (saveNumpyArray passes the four dimensions frames, height,
\* width, 3; the tests pass one to three)
DimValues == {1, 3, 10, 256}
Shapes == SeqsUpTo(DimValues, MaxDims)

\* The data buffers tried; Write does not compare len(data) with the shape
Buffers == {<<>>, <<1, 2, 3>>, <<0, 255, 32, 147, 10, 41>>}

\* The lengths a failed file.Write may have written before it failed
PartialWrites(bytes) == {0, Len(bytes) \div 2}

NoFile == [exists |-> FALSE, bytes |-> <<>>]

InitNpy ==
    /\ shape \in Shapes
    /\ data \in Buffers
    /\ npyPc = "create"
    /\ npyFile = NoFile
    /\ npyResult = [status |-> "running"]

\* NewWriter: os.Create(filepath)
NewWriter ==
    /\ UNCHANGED <<clipVars, batchVars, shardVars, tarVars>>
    /\ npyPc = "create"
    /\ \E failed \in BOOLEAN :
        IF failed
        THEN /\ npyResult' = [status |-> "error"]
             /\ npyPc' = "done"
             /\ UNCHANGED npyFile
        ELSE /\ npyFile' = [exists |-> TRUE, bytes |-> <<>>]
             /\ npyPc' = "header"
             /\ UNCHANGED npyResult
    /\ UNCHANGED <<shape, data>>

\* Write, first half: createHeader(shape) and w.file.Write(header)
WriteHeader ==
    /\ UNCHANGED <<clipVars, batchVars, shardVars, tarVars>>
    /\ npyPc = "header"
    /\ LET header == createHeader(shape)
       IN  \/ /\ npyFile' = [npyFile EXCEPT !.bytes = @ \o header]
              /\ npyPc' = "data"
              /\ UNCHANGED npyResult
           \/ \E n \in PartialWrites(header) :
                 /\ npyFile' = [npyFile EXCEPT !.bytes = @ \o SubSeq(header, 1, n)]
                 /\ npyResult' = [status |-> "error"]
                 /\ npyPc' = "done"
    /\ UNCHANGED <<shape, data>>

\* Write, second half: w.file.Write(data), return nil
WriteData ==
    /\ UNCHANGED <<clipVars, batchVars, shardVars, tarVars>>
    /\ npyPc = "data"
    /\ \/ /\ npyFile' = [npyFile EXCEPT !.bytes = @ \o data]
          /\ npyResult' = [status |-> "nil"]
       \/ \E n \in PartialWrites(data) :
             /\ npyFile' = [npyFile EXCEPT !.bytes = @ \o SubSeq(data, 1, n)]
             /\ npyResult' = [status |-> "error"]
    /\ npyPc' = "done"
    /\ UNCHANGED <<shape, data>>

NextNpy == NewWriter \/ WriteHeader \/ WriteData

\* ---------------------------------------------------------- specifications
\* ProcessClips before it is called
BatchIdle ==
    /\ nClips = 0
    /\ workerCount = 1
    /\ numWorkers = 0
    /\ mainPc = "idle"
    /\ spawned = 0
    /\ sent = 0
    /\ jobs = <<>>
    /\ jobsClosed = FALSE
    /\ errors = <<>>
    /\ wg = 0
    /\ worker = [w \in WorkerSlots |-> Unborn]
    /\ handed = <<>>
    /\ outcome = <<>>
    /\ errs = <<>>
    /\ batchResult = [status |-> "running"]
    /\ panicking = FALSE

\* CreateWebDatasetShards before it is called
ShardIdle ==
    /\ tree = <<>>
    /\ walkFailed = FALSE
    /\ samples = <<>>
    /\ shardSize = 1
    /\ shardPc = "idle"
    /\ shardI = 0
    /\ shards = <<>>
    /\ shardFaults = <<>>
    /\ shardResult = [status |-> "running"]

\* ExtractClipsFromTar before it is called
TarIdle ==
    /\ archive = <<>>
    /\ tarPc = "idle"
    /\ tarPos = 0
    /\ clips = <<>>
    /\ tarResult = [status |-> "running", clips |-> <<>>]

\* numpy.Writer before NewWriter is called
NpyIdle ==
    /\ shape = <<>>
    /\ data = <<>>
    /\ npyPc = "idle"
    /\ npyFile = NoFile
    /\ npyResult = [status |-> "running"]

\* ProcessClip before it is called on a fresh output directory, with
\* arguments from the given sets
ClipIdle(formats, sizes, targets) ==
    /\ InitClip
    /\ prior = {}
    /\ format \in formats
    /\ size \in sizes
    /\ targetFrames \in targets

\* ProcessClip on one clip, for every argument and every answer of the
\* file system and the Decode Engine
InitSpec == InitClip /\ BatchIdle /\ ShardIdle /\ TarIdle /\ NpyIdle
Spec == InitSpec /\ [][NextClip]_vars

\* ProcessClip in image mode from its call to the sorted list of frame
\* files, on clips of up to LongFrames frames
InitSpecFrames ==
    /\ ClipIdle({FormatJPEG}, {<<"1", "x", "1">>}, 1..MaxTarget)
    /\ BatchIdle
    /\ ShardIdle
    /\ TarIdle
    /\ NpyIdle
SpecFrames == InitSpecFrames /\ [][NextFrames]_vars

\* ProcessClips on a batch, for every worker count, every interleaving of
\* the goroutines and every outcome of each ProcessClip call.  The
\* arguments passed through to ProcessClip are a well-formed size with a
\* chunk length of 0 (every call that gets as far as the division panics)
\* or 2.
InitSpecBatch ==
    /\ ClipIdle({FormatJPEG, FormatNPY}, {<<"1", "x", "1">>}, {0, 2})
    /\ InitBatch
    /\ ShardIdle
    /\ TarIdle
    /\ NpyIdle
SpecBatch == InitSpecBatch /\ [][NextBatch]_vars

\* The same, on batches of at most MaxFairClips clips, under the Go
\* scheduler's guarantee that a goroutine that can take a step eventually
\* takes one, and that the runtime ends a process whose goroutine panicked.
InitSpecBatchFair == InitSpecBatch /\ nClips <= MaxFairClips
SpecBatchFair ==
    /\ InitSpecBatchFair
    /\ [][NextBatch]_vars
    /\ WF_vars(Setup \/ Spawn \/ SendJob \/ CloseJobs \/ WaitWorkers \/ Collect)
    /\ WF_vars(ProcessExit)
    /\ \A w \in WorkerSlots :
          WF_vars(WorkerReceive(w) \/ WorkerProcess(w)
                  \/ WorkerSendError(w) \/ WorkerExit(w))

\* CreateWebDatasetShards, for every number of samples, every capacity and
\* every I/O failure
InitSpecShard ==
    /\ ClipIdle({FormatJPEG, FormatNPY}, {<<"1", "x", "1">>}, {2})
    /\ BatchIdle
    /\ InitShard
    /\ TarIdle
    /\ NpyIdle
SpecShard == InitSpecShard /\ [][NextShard]_vars

\* ExtractClipsFromTar, for every archive of the entry names tried
InitSpecTar ==
    /\ ClipIdle({FormatJPEG}, {<<"1", "x", "1">>}, {2})
    /\ BatchIdle
    /\ ShardIdle
    /\ InitTar
    /\ NpyIdle
SpecTar == InitSpecTar /\ [][NextTar]_vars

\* NewWriter and one Write on the new file, for every shape and buffer
\* tried and every failure of the file system
InitSpecNpy ==
    /\ ClipIdle({FormatNPY}, {<<"1", "x", "1">>}, {2})
    /\ BatchIdle
    /\ ShardIdle
    /\ TarIdle
    /\ InitNpy
SpecNpy == InitSpecNpy /\ [][NextNpy]_vars

\* ------------------------------------------------- ProcessClip: properties

\* The frames the Decode Engine produced for the clip
DecodedFrames ==
    IF format = FormatNPY THEN rawLen \div frameSize ELSE Len(frameFiles)

\* ProcessClip has returned from a run with a positive chunk length and a
\* well-formed size of positive frame size.
ReturnedFromSaneRun ==
    /\ pc = "done"
    /\ targetFrames > 0
    /\ dims.ok
    /\ format = FormatNPY => frameSize > 0

\* C1: for every totalFrames >= 0 and targetFrames > 0, in both formats,
\* ProcessClip fails only when the file system or the Decode Engine fails;
\* when it returns nil it has emitted exactly totalFrames div targetFrames
\* chunks, none of which references one of the trailing
\* totalFrames mod targetFrames frames (also when totalFrames < targetFrames
\* and no chunk is emitted).
C1_TruncatedChunkCount ==
    ReturnedFromSaneRun =>
        /\ result.status # "panic"
        /\ result.status = "error" => result.cause \in IOFaults
        /\ result.status = "nil" =>
            LET whole == DecodedFrames \div targetFrames
                used == whole * targetFrames
                tail == {frameFiles[k] : k \in (used + 1)..Len(frameFiles)}
            IN  /\ Len(chunks) = whole
                /\ \A k \in 1..Len(chunks) :
                      /\ 0 <= chunks[k].start
                      /\ chunks[k].end <= used
                      /\ format = FormatNPY => chunks[k].hi <= used * frameSize
                      /\ \A j \in 1..Len(chunks[k].files) :
                            chunks[k].files[j] \notin tail

\* A clip of uneven length was chunked and its tail discarded.
C1_Witness ==
    /\ ReturnedFromSaneRun
    /\ result.status = "nil"
    /\ Len(chunks) = 2
    /\ DecodedFrames % targetFrames # 0

\* C2: within one clip the k-th chunk written carries index k and covers
\* exactly the frames [k*targetFrames, (k+1)*targetFrames) of the frame
\* stream: every emitted chunk holds targetFrames frames, start offsets
\* increase strictly, indices are contiguous from 0, no two chunks overlap.
C2_ChunkRanges ==
    targetFrames > 0 =>
        /\ \A k \in 1..Len(chunks) :
              /\ chunks[k].index = k - 1
              /\ chunks[k].start = (k - 1) * targetFrames
              /\ chunks[k].end = k * targetFrames
              /\ format = FormatNPY =>
                    /\ chunks[k].count = targetFrames
                    /\ chunks[k].lo = chunks[k].start * frameSize
                    /\ chunks[k].hi = chunks[k].end * frameSize
              /\ (format # FormatNPY /\ chunks[k].sealed) =>
                    /\ chunks[k].count = targetFrames
                    /\ chunks[k].files =
                          [j \in 1..targetFrames |->
                              frameFiles[(k - 1) * targetFrames + j]]
        /\ \A k \in 1..(Len(chunks) - 1) :
              /\ chunks[k].start < chunks[k + 1].start
              /\ chunks[k].end <= chunks[k + 1].start

\* Two chunks of two or more frames each were written.
C2_Witness ==
    /\ targetFrames >= 2
    /\ Len(chunks) >= 2
    /\ chunks[2].sealed

\* ------------------------------------------------ ProcessClips: properties

\* The summary of ProcessClip used by ProcessClips admits every way the
\* step-by-step ProcessClip ends.
OutcomeSummarySound ==
    pc = "done" => result.status \in ProcessClipOutcomes(format, size, targetFrames)

BatchClips == 1..nClips

\* The workers inside a ProcessClip call
Processing == {w \in WorkerSlots : worker[w].pc = "process"}

\* The workers holding a clip
Holding == {w \in WorkerSlots : worker[w].pc \in {"process", "sendErr"}}

\* The clips whose ProcessClip call returned an error or panicked
FailedClips == {c \in BatchClips : outcome[c] \in {"error", "panic"}}

\* C3: fail-soft batch.  Under every interleaving and every set of failing
\* clips, no clip is handed to ProcessClip twice or held by two workers, and
\* when ProcessClips returns every submitted clip was handed to ProcessClip
\* exactly once and its call has ended: a failing clip neither cancels nor
\* blocks its siblings.
C3_EveryClipOnce ==
    /\ \A c \in BatchClips : handed[c] <= 1
    /\ \A v, w \in Holding : v # w => worker[v].clip # worker[w].clip
    /\ mainPc = "done" =>
          \A c \in BatchClips : handed[c] = 1 /\ outcome[c] \in {"nil", "error"}

\* C4: ProcessClips returns an error if and only if some clip failed; the
\* error is built only after every worker has finished, its count is the
\* number of failed clips and it holds exactly one entry per failed clip.
C4_AggregateError ==
    /\ mainPc \in {"collect", "done"} =>
          \A w \in 1..numWorkers : worker[w].pc = "exited"
    /\ mainPc = "done" =>
          /\ (batchResult.status = "error") = (FailedClips # {})
          /\ (batchResult.status = "nil") = (FailedClips = {})
          /\ batchResult.status = "error" =>
                /\ batchResult.count = Cardinality(FailedClips)
                /\ Len(batchResult.entries) = Cardinality(FailedClips)
                /\ \A c \in FailedClips :
                      Cardinality({k \in 1..Len(batchResult.entries) :
                                      batchResult.entries[k].key = c}) = 1
                /\ \A k \in 1..Len(batchResult.entries) :
                      batchResult.entries[k].key \in FailedClips

\* C5 as stated: at most max(1, workerCount) clips are processed at once,
\* for every workerCount including zero and negative values.
C5_AtMostMaxOneWorkerCount ==
    Cardinality(Processing) <= Max(1, workerCount)

\* C5, amended: at most workerCount clips are processed at once when
\* workerCount > 0, and at most DefaultWorkers (4) when workerCount <= 0.
C5_BoundedConcurrency ==
    Cardinality(Processing) <=
        (IF workerCount > 0 THEN workerCount ELSE DefaultWorkers)

\* With workerCount = 0 the four default workers are all inside ProcessClip.
C5_Witness ==
    /\ workerCount = 0
    /\ numWorkers = DefaultWorkers
    /\ Cardinality(Processing) = DefaultWorkers

\* No goroutine stands at a channel send that cannot proceed.
NoSendBlocks ==
    /\ (mainPc = "send" /\ sent < nClips) => Len(jobs) < JobsCap(nClips)
    /\ \A w \in WorkerSlots :
          (worker[w].pc = "sendErr" /\ mainPc # "crashed") =>
              Len(errors) < ErrorsCap(nClips)

\* C6: ProcessClips runs to completion.  For every list of clips and every
\* workerCount, under fair scheduling no send ever blocks and, unless a
\* ProcessClip call panics instead of returning, every worker exits and
\* ProcessClips returns.
C6_RunsToCompletion ==
    /\ []NoSendBlocks
    /\ <>(mainPc = "crashed"
          \/ (mainPc = "done" /\ \A w \in 1..numWorkers : worker[w].pc = "exited"))

\* A batch in which every clip failed has returned: the error channel was
\* filled to its capacity and every worker has exited.
C6_Witness ==
    /\ mainPc = "done"
    /\ nClips = MaxFairClips
    /\ \A c \in BatchClips : outcome[c] = "error"
    /\ \A w \in 1..numWorkers : worker[w].pc = "exited"

\* ---------------------------------------------- ProcessClip: temporary files

\* C7 as stated: whenever ProcessClip returns, with nil or with any error,
\* neither the clip's temporary input video file nor its temporary raw-frame
\* file exists any more.
C7_TempFilesRemoved ==
    (pc = "done" /\ result.status \in {"nil", "error"}) =>
        (~tempVideo /\ ~tempRaw)

\* ------------------------------------- CreateWebDatasetShards: properties

\* The least q with q * c >= n
CeilDiv(n, c) == CHOOSE q \in 0..n : q * c >= n /\ (q = 0 \/ (q - 1) * c < n)

Min(a, b) == IF a < b THEN a ELSE b

\* The samples at discovery positions [i*c, min((i+1)*c, n)), 0-based
ShardSamples(idx) ==
    [k \in 1..(Min((idx + 1) * shardSize, Len(samples)) - idx * shardSize) |->
        samples[idx * shardSize + k]]

\* The shard files that hold a sample
ShardsHolding(x) ==
    {j \in 1..Len(shards) :
        \E k \in 1..Len(shards[j].entries) : shards[j].entries[k] = x}

\* C8: with n samples and capacity c > 0, a call that returns nil has
\* created exactly ceil(n/c) shards, indexed 0..ceil(n/c)-1 and named
\* shard_<5-digit index>.tar; shard i holds exactly the samples at discovery
\* positions [i*c, min((i+1)*c, n)); every sample is in exactly one shard,
\* every shard but the last holds c samples and no shard is empty.
C8_ShardPartition ==
    (shardPc = "done" /\ shardResult.status = "nil") =>
        LET n == Len(samples)
            count == CeilDiv(n, shardSize)
        IN  /\ Len(shards) = count
            /\ \A j \in 1..count :
                  /\ shards[j].index = j - 1
                  /\ Len(shards[j].name) = Len(StrShardPrefix) + ChunkDigits + Len(StrTar)
                  /\ HasPrefix(shards[j].name, StrShardPrefix)
                  /\ HasSuffix(shards[j].name, StrTar)
                  /\ DigitsValue(SubSeq(shards[j].name, Len(StrShardPrefix) + 1,
                                        Len(StrShardPrefix) + ChunkDigits)) = j - 1
                  /\ shards[j].entries = ShardSamples(j - 1)
                  /\ Len(shards[j].entries) >= 1
                  /\ j < count => Len(shards[j].entries) = shardSize
            /\ \A k \in 1..n : Cardinality(ShardsHolding(samples[k])) = 1

\* Five samples were packed with capacity 2: three shards, the last of them
\* holding one sample.
C8_Witness ==
    /\ shardPc = "done"
    /\ shardResult.status = "nil"
    /\ Len(samples) = 5
    /\ shardSize = 2
    /\ Len(shards) = 3
    /\ Len(shards[3].entries) = 1

\* C9 as stated: when the creation of shard i fails with a read or write
\* error (os.Create, the read of a sample, a header or data write, or the
\* write of the archive trailer by tw.Close()), the value
\* CreateWebDatasetShards returns is an error naming shard i, and the shards
\* 0..i-1 written before it are still there with exactly the samples written
\* into them.
C9_ShardFailure ==
    (shardPc = "done" /\ shardFaults # <<>>) =>
        LET failed == shardFaults[1].shard
        IN  /\ shardResult.status = "error"
            /\ shardResult.shard = failed
            /\ Len(shards) >= failed
            /\ \A j \in 1..failed :
                  /\ shards[j].index = j - 1
                  /\ shards[j].name = ShardName(j - 1)
                  /\ shards[j].entries = ShardSamples(j - 1)

\* ---------------------------------------- ExtractClipsFromTar: properties

\* C10 as stated: ExtractClipsFromTar returns, in archive order, one clip
\* for each .mp4 entry whose base name does not start with a dot, and skips
\* every other entry; an archive of one video and its "._" companion yields
\* one clip.
C10_SkipsHiddenEntries ==
    (tarPc = "done" /\ tarResult.status = "nil") =>
        LET visible(k) ==
                /\ HasSuffix(archive[k], StrMp4)
                /\ ~HasPrefix(Base(archive[k]), <<".">>)
            positions == SelectSeq([k \in 1..Len(archive) |-> k], visible)
        IN  tarResult.clips =
                [j \in 1..Len(positions) |->
                    Clip(archive[positions[j]], positions[j])]

\* C11 as stated: the keys of the clips ExtractClipsFromTar returns are
\* pairwise distinct, for every archive, also when video entries of
\* different directories share a file name.
C11_DistinctKeys ==
    (tarPc = "done" /\ tarResult.status = "nil") =>
        \A j, k \in 1..Len(tarResult.clips) :
            j # k => tarResult.clips[j].Key # tarResult.clips[k].Key

\* C12 as stated: a ProcessClip call with targetFrames <= 0 ends by
\* returning an error, in either format and for any number of decoded
\* frames; it neither crashes nor returns success.
C12_NonPositiveTargetRejected ==
    (pc = "done" /\ targetFrames <= 0) => result.status = "error"

\* The Decode Engine has been invoked for the clip
DecodeEngineInvoked ==
    \/ pc \in {"readRaw", "list", "plan", "chunk"}
    \/ pc = "done" /\ result.cause \notin {"none", "writeTemp", "size", "mkdir"}
    \/ pc = "done" /\ result.status = "nil"

\* C13 as stated: with a malformed size string or an unsupported output
\* format, no clip's temp input file is ever written, no output directory
\* is created and the Decode Engine is never invoked, and the call ends
\* with an error.
C13_ValidatedBeforeProcessing ==
    (~parseDimensions(size).ok \/ format \notin {FormatJPEG, FormatNPY}) =>
        /\ ~tempVideo
        /\ ~deferred
        /\ ~outDir
        /\ ~DecodeEngineInvoked
        /\ pc = "done" => result.status = "error"

\* The number of 'x' separators in a size string
SeparatorCount(s) == Cardinality({k \in 1..Len(s) : s[k] = "x"})

\* C14 as stated: every Dimensions value parseDimensions returns without
\* error has Width > 0 and Height > 0, the width read from the component
\* before the 'x' and the height from the one after it; a size string whose
\* separator count is not one is refused.
C14_PositiveDimensions ==
    /\ dims.ok =>
          /\ dims.Width > 0
          /\ dims.Height > 0
          /\ dims.Width = Atoi(Split(size, "x")[1]).val
          /\ dims.Height = Atoi(Split(size, "x")[2]).val
    /\ (pc = "done" /\ SeparatorCount(size) # 1) =>
          (result.status = "error" /\ ~dims.ok)

\* ------------------------------------------------ ProcessClip: metadata

\* The json names present in a persisted metadata document
FieldNames(doc) == {doc[k].name : k \in 1..Len(doc)}

\* The value stored under a json name
Field(doc, name) == doc[CHOOSE k \in 1..Len(doc) : doc[k].name = name].value

\* C15 as stated: when the decoded frame count leaves a nonzero remainder,
\* a successful ProcessClip has emitted, after the complete chunks, one more
\* chunk that starts at the first remainder frame, is extended to
\* targetFrames frames and has is_padded = true in its metadata.
C15_RemainderPadded ==
    (ReturnedFromSaneRun /\ result.status = "nil"
        /\ DecodedFrames % targetFrames # 0) =>
        LET whole == DecodedFrames \div targetFrames
        IN  /\ Len(chunks) = whole + 1
            /\ chunks[whole + 1].start = whole * targetFrames
            /\ chunks[whole + 1].count = targetFrames
            /\ Len(metas) = whole + 1
            /\ "is_padded" \in FieldNames(metas[whole + 1])
            /\ Field(metas[whole + 1], "is_padded") = TRUE

\* C16 as stated: every persisted metadata record holds all seven fields
\* key, fps, frame_count, size, is_padded, is_trimmed and original_fps.
C16_SevenFields ==
    \A k \in 1..Len(metas) :
        FieldNames(metas[k]) =
            {"key", "fps", "frame_count", "size", "is_padded", "is_trimmed",
             "original_fps"}

\* C17: the k-th metadata document written for clip K with size "WxH",
\* fps f and chunk length targetFrames has key "K/chunk_<k as 5 zero-padded
\* digits>", fps f, frame_count targetFrames and size [H, W]; when
\* ProcessClip returns nil every chunk artifact has exactly one metadata
\* document, the one with its index.
C17_MetadataContents ==
    /\ \A k \in 1..Len(metas) :
          LET doc == metas[k]
              name == Field(doc, "key")
              digits == SubSeq(name, Len(name) - ChunkDigits + 1, Len(name))
              parts == Split(size, "x")
          IN  /\ Len(name) = Len(key) + 1 + Len(StrChunkPrefix) + ChunkDigits
              /\ HasPrefix(name, key \o <<"/">> \o StrChunkPrefix)
              /\ \A j \in 1..ChunkDigits : IsDigit(digits[j])
              /\ DigitsValue(digits) = k - 1
              /\ Field(doc, "fps") = fps
              /\ Field(doc, "frame_count") = targetFrames
              /\ Field(doc, "size") = <<Atoi(parts[2]).val, Atoi(parts[1]).val>>
              /\ k <= Len(chunks)
              /\ chunks[k].index = k - 1
              /\ chunks[k].sealed
    /\ (pc = "done" /\ result.status = "nil") =>
          /\ Len(metas) = Len(chunks)
          /\ \A k \in 1..Len(chunks) : chunks[k].sealed

\* A clip of size "2x1" was cut into two chunks, each with its metadata.
C17_Witness ==
    /\ pc = "done"
    /\ result.status = "nil"
    /\ size = <<"2", "x", "1">>
    /\ targetFrames = 2
    /\ Len(metas) = 2
    /\ Field(metas[2], "size") = <<1, 2>>

\* ------------------------------------------------ numpy.Writer: properties

\* The header createHeader produced is in the file and nothing else is
HeaderWritten == npyPc = "data"

\* The position of the last '}' of a byte sequence, 0 if there is none
LastBrace(bytes) ==
    IF \E k \in 1..Len(bytes) : bytes[k] = 125
    THEN CHOOSE k \in 1..Len(bytes) :
            bytes[k] = 125 /\ \A j \in (k + 1)..Len(bytes) : bytes[j] # 125
    ELSE 0

\* C18: for every shape the header starts with the preamble
\* 0x93 'NUMPY' 0x01 0x00, then holds a little-endian 16-bit length equal to
\* len(dictionary) + padding, then the dictionary and 0..15 spaces, and its
\* total length 10 + len(dictionary) + padding is a multiple of 16 and the
\* length field is not zero.
C18_HeaderLayout ==
    HeaderWritten =>
        LET header == npyFile.bytes
            field == header[9] + 256 * header[10]
            close == LastBrace(header)
            padding == Len(header) - close
        IN  /\ Len(header) >= 10
            /\ SubSeq(header, 1, 8) = <<147, 78, 85, 77, 80, 89, 1, 0>>
            /\ close > 10
            /\ header[11] = 123
            /\ padding \in 0..15
            /\ \A k \in (close + 1)..Len(header) : header[k] = 32
            /\ Len(header) % 16 = 0
            /\ field = Len(header) - 10
            /\ field # 0

\* The header of the chunk shape (3, 10, 10, 3) is in the file: 80 bytes, five
\* of them padding.
C18_Witness ==
    /\ HeaderWritten
    /\ shape = <<3, 10, 10, 3>>
    /\ Len(npyFile.bytes) = 80
    /\ npyFile.bytes[9] = 70
    /\ npyFile.bytes[75] = 125
    /\ npyFile.bytes[76] = 32

\* How a reader of the NPY 1.0 format takes a file apart: the 16-bit
\* little-endian length at bytes 9 and 10, the dictionary text of that
\* length, the payload after it.
ReadLength(bytes) == bytes[9] + 256 * bytes[10]
ReadDict(bytes) ==
    LET text == SubSeq(bytes, 11, 10 + ReadLength(bytes))
    IN  [k \in 1..Len(text) |-> Printable[text[k] - 31]]
ReadPayload(bytes) == SubSeq(bytes, 11 + ReadLength(bytes), Len(bytes))

\* A string without its leading and trailing spaces
RECURSIVE TrimSpaces(_)
TrimSpaces(s) ==
    IF s = <<>> THEN s
    ELSE IF Head(s) = " " THEN TrimSpaces(Tail(s))
    ELSE IF s[Len(s)] = " " THEN TrimSpaces(SubSeq(s, 1, Len(s) - 1))
    ELSE s

\* The value of the dictionary's 'shape' entry read as a Python literal:
\* "()" is the empty tuple, a parenthesised list with at least one comma is
\* a tuple of its items (a trailing comma adds no item), and "(3)" is the
\* number 3 and no tuple, which a reader refuses as a shape.
ReadShape(bytes) ==
    LET text == ReadDict(bytes)
        opens == {k \in 1..Len(text) : text[k] = "("}
        closes == {k \in 1..Len(text) : text[k] = ")"}
        refused == [ok |-> FALSE, shape |-> <<>>]
    IN  IF opens = {} \/ closes = {} THEN refused
        ELSE LET open == CHOOSE k \in opens : \A j \in opens : k <= j
                 close == CHOOSE k \in closes : \A j \in closes : k >= j
                 inner == TrimSpaces(SubSeq(text, open + 1, close - 1))
                 split == Split(inner, ",")
                 items == IF TrimSpaces(split[Len(split)]) = <<>>
                          THEN SubSeq(split, 1, Len(split) - 1) ELSE split
                 numbers == [k \in 1..Len(items) |-> Atoi(TrimSpaces(items[k]))]
             IN  IF close < open THEN refused
                 ELSE IF inner = <<>> THEN [ok |-> TRUE, shape |-> <<>>]
                 ELSE IF Len(split) < 2 THEN refused
                 ELSE IF \E k \in 1..Len(items) : ~numbers[k].ok THEN refused
                 ELSE [ok |-> TRUE,
                       shape |-> [k \in 1..Len(items) |-> numbers[k].val]]

\* C19 as stated: for every buffer and every shape of one or more
\* dimensions, after a successful Write on a fresh file a reader recovers
\* exactly the shape tuple from the header, and the bytes after the header
\* are exactly the buffer.
C19_RoundTrip ==
    (npyPc = "done" /\ npyResult.status = "nil" /\ Len(shape) >= 1) =>
        /\ ReadShape(npyFile.bytes).ok
        /\ ReadShape(npyFile.bytes).shape = shape
        /\ ReadPayload(npyFile.bytes) = data

\* --------------------------------- CreateWebDatasetShards: entry names

\* The base name of sample x: its chunk file or chunk directory
ChunkName(x) == Base(x)

\* C20 as stated: in a shard, a binary-array sample is stored under its base
\* file name, and every file of an image-format sample under
\* "<chunkDirName>/<fileName>", the chunk directory name appearing once.
C20_EntryNames ==
    \A j \in 1..Len(shards) :
        LET file == shards[j]
            perSample == IF format = FormatNPY THEN 1 ELSE Len(ChunkFiles)
        IN  \A n \in 1..Len(file.names) :
                LET x == file.entries[((n - 1) \div perSample) + 1]
                    f == ((n - 1) % perSample) + 1
                IN  (n <= perSample * Len(file.entries)) =>
                        IF format = FormatNPY
                        THEN file.names[n] = ChunkName(x)
                        ELSE file.names[n] =
                                ChunkName(x) \o <<"/">> \o ChunkFiles[f]


\* ------------------------------------------------ ProcessClips: file paths

\* The archive entries the clips of a batch were read from: ".mp4", "..mp4",
\* "v3.mp4", "v4.mp4", ...
BatchEntry(c) ==
    (IF c = 1 THEN <<>> ELSE IF c = 2 THEN <<".">> ELSE <<"v">> \o DigitsOf(c))
        \o StrMp4

\* The keys of the clips of a batch, as ExtractClipsFromTar derives them from
\* the entry names: "", ".", "v3", "v4", ...
BatchKey(c) == ClipKey(BatchEntry(c))

\* C21 as stated: the clips of a batch having pairwise distinct keys, no two workers
\* that are inside ProcessClip at the same time use a common path: the
\* temporary video, the temporary raw file and the output directory of one
\* clip differ from those of every other clip being processed.
C21_DisjointPaths ==
    /\ \A c, d \in BatchClips : c # d => BatchKey(c) # BatchKey(d)
    /\ \A v, w \in Processing :
          v # w => ClipPaths(BatchKey(worker[v].clip), format)
                      \cap ClipPaths(BatchKey(worker[w].clip), format) = {}


\* ------------------------------------------------ ProcessClip: raw buffer

\* C22: in array mode, a decoded buffer whose length is not a multiple of
\* width * height * 3 makes ProcessClip end with an error (chunk lengths of
\* at least one frame).
C22_RaggedBufferFails ==
    (/\ pc = "done"
     /\ format = FormatNPY
     /\ targetFrames >= 1
     /\ frameSize > 0
     /\ rawLen % frameSize # 0) => result.status = "error"

\* ------------------------------------------------ ProcessClip: failures

\* The failures of the file system while a chunk is serialized
ChunkFaults == {"saveNpy", "saveMeta", "mkdirChunk", "rename"}

\* C23: when a directory creation, a rename, an array write or a metadata
\* write fails while chunk i is serialized, ProcessClip returns at once
\* with an error carrying that failure: nothing of a chunk after i was
\* written, chunk i got no metadata, and in image mode the frames after
\* chunk i are still where the decoder put them (neither moved nor cleaned
\* up).
C23_AbortOnFailure ==
    result.cause \in ChunkFaults =>
        /\ pc = "done"
        /\ result.status = "error"
        /\ i < numChunks
        /\ Len(metas) = i
        /\ \A k \in 1..Len(chunks) :
              /\ chunks[k].index <= i
              /\ chunks[k].sealed => chunks[k].index < i
        /\ format # FormatNPY =>
              \A k \in (EndFrame(i, targetFrames) + 1)..Len(frameFiles) :
                  frameFiles[k] \in loose

\* The second chunk of an image-mode clip failed on a rename with further
\* chunks still to come.
C23_Witness ==
    /\ pc = "done"
    /\ result = Err("rename")
    /\ format = FormatJPEG
    /\ i = 1
    /\ numChunks >= 3
    /\ Len(chunks) = 2

\* ------------------------------------------------ ProcessClip: chunk directories

\* An image-mode run with a positive chunk length has returned nil.
ImageRunSucceeded ==
    /\ pc = "done"
    /\ result.status = "nil"
    /\ format = FormatJPEG
    /\ targetFrames > 0

\* The directory of chunk c holds exactly frame_001.jpg ..
\* frame_<targetFrames>.jpg, the file under frame_<j+1>.jpg is the one that
\* was at position c.index * targetFrames + j of the sorted frame list
\* (positions from 0), and that file is gone from the clip directory.
ChunkHoldsItsFrames(c) ==
    /\ ChunkDirFrames(c) = {FrameName(n) : n \in 1..targetFrames}
    /\ \A j \in 0..(targetFrames - 1) :
          /\ ChunkDirSource(c, FrameName(j + 1))
                = frameFiles[c.index * targetFrames + j + 1]
          /\ frameFiles[c.index * targetFrames + j + 1] \notin loose

\* C24: after every successful image-mode run each chunk
\* directory holds exactly its targetFrames frames, renumbered from 1 in
\* sorted order and moved out of the clip directory.
C24_ChunkContents ==
    ImageRunSucceeded => \A k \in 1..Len(chunks) : ChunkHoldsItsFrames(chunks[k])

\* C25: after an image-mode run on a fresh output directory has returned
\* nil, no frame file is left directly in the clip's output directory, and
\* the directory holds exactly floor(totalFrames / targetFrames) entries,
\* all of them chunk directories.
C25_NoLooseFrames ==
    (/\ pc = "done"
     /\ result.status = "nil"
     /\ format = FormatJPEG
     /\ prior = {}) =>
        LET n == Cardinality(ClipDirEntries)
        IN  /\ loose = {}
            /\ ClipDirEntries = {ChunkDirName(c) : c \in 0..(n - 1)}
            /\ n * targetFrames <= totalFrames
            /\ totalFrames < (n + 1) * targetFrames

\* ------------------------------------------------ ProcessClip: frame order

\* C26: for every number of frames the decoder writes as frame_%03d.jpg,
\* numbered from 1, the sorted list ProcessClip chunks is in temporal
\* order: its k-th name is the name of the k-th frame.
C26_SortedIsTemporal ==
    pc = "plan" =>
        \A k \in 1..Len(frameFiles) : frameFiles[k] = FrameName(k)


\* ------------------------------- CreateWebDatasetShards: sample discovery

\* The directories of the tree that hold a metadata.json
MetadataDirs == {tree[k].path : k \in {j \in 1..Len(tree) : tree[j].isDir /\ tree[j].hasMeta}}

\* C27: in image format, after a walk that met no error, the samples are
\* exactly the directories under the input directory that hold a
\* metadata.json, whatever their names, each of them once.
C27_SamplesAreMetadataDirs ==
    (shardPc # "walk" /\ format = FormatJPEG /\ ~walkFailed) =>
        /\ {samples[k] : k \in 1..Len(samples)} = MetadataDirs
        /\ Len(samples) = Cardinality(MetadataDirs)

\* C28: no two tar entries of one shard file have the same name, whichever
\* clips the samples of the shard belong to.
C28_DistinctEntryNames ==
    \A j \in 1..Len(shards) :
        \A m, n \in 1..Len(shards[j].names) :
            m # n => shards[j].names[m] # shards[j].names[n]

\* C29: when the walk of the input directory ended on an error,
\* CreateWebDatasetShards returns an error.
C29_WalkFailureReported ==
    (shardPc = "done" /\ walkFailed) => shardResult.status = "error"

====
